---- MODULE Spec2Model ----
(***************************************************************************)
(* A model of the KuCoin candle relay of server.js: one upstream WebSocket *)
(* to the exchange (bootstrap REST call, socket, keep-alive, reconnect by  *)
(* timers), a registry of downstream WebSocket clients, the broadcast of   *)
(* live candles, and the bridging of history requests to the REST API.     *)
(*                                                                         *)
(* Every handler of server.js is one action.  The environment (the `ws`    *)
(* library, axios, the peers) decides which event comes next; the handlers *)
(* decide what the event does.  Library behaviour the handlers rely on:    *)
(*   - a socket emits 'close' exactly once, after which it emits nothing;  *)
(*     'error' is emitted with readyState already CLOSING and is followed  *)
(*     by 'close'; a failed handshake emits 'error' and 'close' back to    *)
(*     back;                                                               *)
(*   - send() on a socket that is CLOSING or CLOSED transmits nothing and  *)
(*     does not throw; send() on a CONNECTING socket throws;               *)
(*   - an exception thrown by an event listener, and an 'error' event with *)
(*     no listener, are uncaught exceptions: the process terminates;       *)
(*   - a rejected promise nobody handles terminates the process or only    *)
(*     warns, depending on the runtime: both outcomes are modelled.        *)
(* Time is not modelled: a timer is pending until it fires, and is tagged  *)
(* with its delay.                                                         *)
(***************************************************************************)
EXTENDS Integers, Sequences, FiniteSets, TLC

\* ---------------------------------------------------------------- constants

\* setTimeout(connectToKuCoin, 5000) of the upstream 'close' handler.
ReconnectDelay == 5000
\* setTimeout(connectToKuCoin, 10000) of the bootstrap catch block.
BootstrapRetryDelay == 10000
\* setInterval(..., 25000) of the upstream 'open' handler.
PingInterval == 25000
\* parseInt(x) / 1000: milliseconds to seconds.
MsPerSecond == 1000

\* ------------------------------------------------------------------- bounds

\* The keep-alive intervals are counted up to this many ("this many or more").
MaxPingTimers == 2
\* Consecutive bootstrap failures are counted up to this many (or more).
MaxConsecFails == 2
\* History fetches one downstream connection may have in flight at a time.
MaxPending == 2
\* Longest raw historical response enumerated.
MaxHistLen == 2
\* Live updates whose deliveries are recorded (FeedSpec).
MaxFeed == 2

\* ------------------------------------------------------------------ domains

\* `let kucoinWs = null`
Null == 0
\* Upstream socket objects that can be alive at the same time.
SockIds == {1, 2}
\* Downstream connections, named in order of arrival.
Clients == {1, 2, 3}
Delays == {ReconnectDelay, BootstrapRetryDelay}

\* JavaScript values: numbers are naturals here; NaN and undefined are marks.
NaN == -1
Undefined == -2

VARIABLES
    clients,      \* the Set `clients` of registered downstream sockets
    cstate,       \* readyState of each downstream socket
    pending,      \* per downstream socket: history fetches awaiting axios.get
    kucoinWs,     \* the shared reference `kucoinWs`
    kucoinWsUrl,  \* `kucoinWsUrl`: "null" until the first bootstrap, then "set"
    ustate,       \* readyState of each upstream socket object
    subscribed,   \* upstream sockets the subscribe command was sent on
    nBoot,        \* connectToKuCoin calls awaiting axios.post
    timers,       \* pending setTimeout(connectToKuCoin, d), per delay d
    pingTimers,   \* setInterval keep-alives that exist
    consecFails,  \* bootstrap failures since the last bootstrap success
    crashed,      \* the process was terminated by an uncaught exception
    feed,         \* history: the candle frames published, in order (FeedSpec)
    live,         \* history: per downstream socket, the live updates sent to it
    ev            \* the handler that ran last, and what it sent

vars == <<clients, cstate, pending, kucoinWs, kucoinWsUrl, ustate, subscribed,
          nBoot, timers, pingTimers, consecFails, crashed, feed, live, ev>>

downVars == <<clients, cstate, pending>>
logVars == <<feed, live>>
upVars == <<kucoinWs, kucoinWsUrl, ustate, subscribed, nBoot, timers,
            pingTimers, consecFails>>

NoMsg == [topic |-> "none"]
NoArg == [kind |-> "none"]
\* What a handler did: its name, the socket it ran for, what it was given (an
\* upstream frame, a REST payload), the downstream sockets a message was
\* transmitted to, and the message.
Event(type, id, arg, to, msg) ==
    [type |-> type, id |-> id, arg |-> arg, to |-> to, msg |-> msg]

Min(a, b) == IF a < b THEN a ELSE b

\* ------------------------------------------------------- value conversions

\* parseInt(x) for x a number, a string of digits, or undefined.
ParseInt(x) == IF x = Undefined \/ x = NaN THEN NaN ELSE x
\* parseFloat(x), likewise.
ParseFloat(x) == IF x = Undefined \/ x = NaN THEN NaN ELSE x
\* d[i] of a JavaScript array (i counted from 0): undefined past the end.
Field(d, i) == IF i + 1 <= Len(d) THEN d[i + 1] ELSE Undefined
\* The JavaScript number n / 1000, exactly: whole seconds and thousandths.
DivideBy1000(n) ==
    IF n = NaN THEN [int |-> NaN, frac |-> 0]
    ELSE [int |-> n \div MsPerSecond, frac |-> n % MsPerSecond]
\* array.reverse()
Reverse(s) == [i \in 1..Len(s) |-> s[Len(s) + 1 - i]]

\* A variant that reads the record as [t, o, h, l, c].
FormatCandleOHLC(d) ==
    [time  |-> DivideBy1000(ParseInt(Field(d, 0))),
     open  |-> ParseFloat(Field(d, 1)),
     close |-> ParseFloat(Field(d, 4)),
     high  |-> ParseFloat(Field(d, 2)),
     low   |-> ParseFloat(Field(d, 3))]

\* The object both transformations build from a raw record [t, o, c, h, l].
FormatCandle(d) ==
    [time  |-> DivideBy1000(ParseInt(Field(d, 0))),
     open  |-> ParseFloat(Field(d, 1)),
     close |-> ParseFloat(Field(d, 2)),
     high  |-> ParseFloat(Field(d, 3)),
     low   |-> ParseFloat(Field(d, 4))]

\* kucoinData.map(d => ({...}))
formattedCandles(items) == [i \in 1..Len(items) |-> FormatCandle(items[i])]
\* formattedCandles.reverse()
finalCandles(items) == Reverse(formattedCandles(items))

\* A variant without the Array.isArray check: mapping a value that is no array
\* throws, and the catch block replies.
HistoryReplyUnguarded(kucoinData) ==
    IF ~kucoinData.isArray
    THEN [topic |-> "error", message |-> "Failed to fetch history."]
    ELSE [topic |-> "history_data", data |-> finalCandles(kucoinData.items)]

\* The reply to a history request whose REST call returned kucoinData (the
\* value of response.data.data: an array of raw records, or something else).
HistoryReply(kucoinData) ==
    IF ~kucoinData.isArray \/ Len(kucoinData.items) = 0
    THEN [topic |-> "history_data", data |-> <<>>]
    ELSE [topic |-> "history_data", data |-> finalCandles(kucoinData.items)]

\* A variant of the catch block that answers with an empty history.
ErrorReplyAsEmptyHistory == [topic |-> "history_data", data |-> <<>>]

\* The reply of the catch block.
ErrorReply == [topic |-> "error", message |-> "Failed to fetch history."]

\* ------------------------------------------------------------- the registry

\* A variant of broadcast without the readyState check.
broadcastUnchecked(regs, st) == regs

\* broadcast(data): the downstream sockets the message is transmitted to.
broadcast(regs, st) == {c \in regs : st[c] = "open"}

\* A variant in which a subscriber is sent each live update twice.
DeliverTwice(log, n, msg) == log \o <<[n |-> n, msg |-> msg], [n |-> n, msg |-> msg]>>

\* client.send(message) of broadcast, as seen by one subscriber: the n-th
\* published update is appended to what the subscriber has been sent.
Deliver(log, n, msg) == Append(log, [n |-> n, msg |-> msg])

\* clientWs.send(message): transmitted only on an open socket.
SendTo(c, st) == IF st[c] = "open" THEN {c} ELSE {}

\* ------------------------------------------------------------------- inputs

\* Raw historical records [time ms, open, close, high, low].
RawRecords == {<<1000, 8, 9, 9, 7>>, <<2000, 10, 12, 13, 9>>, <<3500, 12, 11, 14, 10>>}

RECURSIVE SeqsUpTo(_, _)
SeqsUpTo(S, n) ==
    IF n = 0 THEN {<<>>}
    ELSE LET shorter == SeqsUpTo(S, n - 1)
         IN  shorter \cup {Append(s, x) : s \in shorter, x \in S}

NotAnArray == [isArray |-> FALSE, items |-> <<>>]
Array(items) == [isArray |-> TRUE, items |-> items]
\* Every value of response.data.data enumerated.
AllPayloads == {NotAnArray} \cup {Array(s) : s \in SeqsUpTo(RawRecords, MaxHistLen)}
\* The ones the relay as a whole is run with; HistorySpec runs them all.
SamplePayloads ==
    {Array(<<>>), Array(<<<<2000, 10, 12, 13, 9>>, <<1000, 8, 9, 9, 7>>>>)}

\* Upstream frames: text that is not JSON, a frame of another type (welcome,
\* ack, pong), and candle.stick frames with and without their candles array.
CandleTopic == "/contractMarket/limitCandle:SOLUSDTM_1min"
FeedFrame(json, type, subject, hasCandles, candles) ==
    [json |-> json, type |-> type, subject |-> subject, topic |-> CandleTopic,
     hasCandles |-> hasCandles, candles |-> candles]
GoodFrame == FeedFrame(TRUE, "message", "candle.stick", TRUE, <<60000, 8, 9, 9, 7>>)
SubSecondFrame == FeedFrame(TRUE, "message", "candle.stick", TRUE, <<61500, 9, 9, 10, 8>>)
NoCloseFrame == FeedFrame(TRUE, "message", "candle.stick", TRUE, <<60000, 8>>)
NoDataFrame == FeedFrame(TRUE, "message", "candle.stick", FALSE, <<>>)
WelcomeFrame == FeedFrame(TRUE, "welcome", "", FALSE, <<>>)
NotJsonFrame == FeedFrame(FALSE, "", "", FALSE, <<>>)
FeedFrames == {GoodFrame, SubSecondFrame, NoCloseFrame, NoDataFrame, WelcomeFrame,
               NotJsonFrame}

\* Two well-formed candle frames that differ, and a frame that is not published.
PublishedFrames == {GoodFrame, SubSecondFrame, WelcomeFrame}

\* msg.type === 'message' && msg.subject && msg.subject.includes('candle.stick')
IsCandleFrame(m) == m.type = "message" /\ m.subject = "candle.stick"
\* JSON.parse(data) throws, or kucoinCandle.candles[0] reads a property of undefined.
FrameThrows(m) == ~m.json \/ (IsCandleFrame(m) /\ ~m.hasCandles)
\* The object handed to broadcast for a candle frame.
LiveUpdate(m) == [topic |-> m.topic, data |-> FormatCandle(m.candles)]

\* ----------------------------------------------------------------- handlers

\* setTimeout(connectToKuCoin, d)
Schedule(tm, d) == [tm EXCEPT ![d] = @ + 1]

\* ws.close(): a socket that is CONNECTING or OPEN starts closing; no effect on
\* one that is CLOSING or CLOSED.
CloseCall(st, k) ==
    IF st[k] \in {"connecting", "open"} THEN [st EXCEPT ![k] = "closing"] ELSE st

\* new WebSocket(kucoinWsUrl): the object gets the first unused name.
NewSocket(st) ==
    CHOOSE s \in SockIds :
        st[s] = "closed" /\ \A t \in SockIds : st[t] = "closed" => s <= t

\* A variant of the catch block that gives up.
CatchBootstrapGivesUp(tm) == tm

\* A variant of the catch block that schedules two retries.
CatchBootstrapRetriesTwice(tm) ==
    Schedule(Schedule(tm, BootstrapRetryDelay), BootstrapRetryDelay)

\* The catch block of connectToKuCoin.
CatchBootstrap(tm) == Schedule(tm, BootstrapRetryDelay)

\* A variant of the close handler that keeps the reference to the closed socket.
OnCloseKeepsReference(tm) ==
    [kucoinWs |-> kucoinWs, timers |-> Schedule(tm, ReconnectDelay)]

\* kucoinWs.on('close'): what it assigns.
OnClose(tm) == [kucoinWs |-> Null, timers |-> Schedule(tm, ReconnectDelay)]

\* A variant of the error handler that also schedules a reconnect of its own.
OnErrorReconnects(kws, st, tm) ==
    IF kws = Null
    THEN [threw |-> TRUE, ustate |-> st, timers |-> tm]
    ELSE [threw |-> FALSE, ustate |-> CloseCall(st, kws),
          timers |-> Schedule(tm, ReconnectDelay)]

\* kucoinWs.on('error'): kucoinWs.close(), on whatever kucoinWs refers to; a
\* null kucoinWs throws.
OnError(kws, st, tm) ==
    IF kws = Null
    THEN [threw |-> TRUE, ustate |-> st, timers |-> tm]
    ELSE [threw |-> FALSE, ustate |-> CloseCall(st, kws), timers |-> tm]

\* A variant that publishes the reply to every registered socket.
ReplyToAllOpen(c, regs, st) == broadcast(regs, st)

\* A variant in which a reply is transmitted whatever the socket's readyState.
ReplyRegardless(c, regs, st) == {c}

\* The sockets a history reply (history_data or error) is transmitted to.
ReplyRecipients(c, regs, st) == SendTo(c, st)

\* --------------------------------------------------------------------- Init

Init ==
    /\ clients = {}
    /\ cstate = [c \in Clients |-> "none"]
    /\ pending = [c \in Clients |-> 0]
    /\ kucoinWs = Null
    /\ kucoinWsUrl = "null"
    /\ ustate = [s \in SockIds |-> "closed"]
    /\ subscribed = {}
    /\ nBoot = 1                      \* connectToKuCoin() at start-up
    /\ timers = [d \in Delays |-> 0]
    /\ pingTimers = 0
    /\ consecFails = 0
    /\ crashed = FALSE
    /\ feed = <<>>
    /\ live = [c \in Clients |-> <<>>]
    /\ ev = Event("start", Null, NoArg, {}, NoMsg)

\* ----------------------------------------------------------------- upstream

\* axios.post resolved with an endpoint and a token; the socket is created.
BootstrapOk ==
    /\ ~crashed
    /\ nBoot > 0
    /\ \E s \in SockIds : ustate[s] = "closed"
    /\ LET s == NewSocket(ustate)
       IN  /\ kucoinWs' = s
           /\ ustate' = [ustate EXCEPT ![s] = "connecting"]
           /\ subscribed' = subscribed \ {s}
           /\ ev' = Event("bootstrapOk", s, NoArg, {}, NoMsg)
    /\ nBoot' = nBoot - 1
    /\ kucoinWsUrl' = "set"
    /\ consecFails' = 0
    /\ UNCHANGED <<timers, pingTimers, crashed, downVars>>
    /\ UNCHANGED logVars

\* axios.post rejected, or the response has no data.instanceServers[0].
BootstrapFail ==
    /\ ~crashed
    /\ nBoot > 0
    /\ nBoot' = nBoot - 1
    /\ timers' = CatchBootstrap(timers)
    /\ consecFails' = Min(consecFails + 1, MaxConsecFails)
    /\ ev' = Event("bootstrapFail", Null, NoArg, {}, NoMsg)
    /\ UNCHANGED <<kucoinWs, kucoinWsUrl, ustate, subscribed, pingTimers, crashed,
                   downVars>>
    /\ UNCHANGED logVars

\* A pending setTimeout fires: connectToKuCoin() runs up to its await.
TimerFire(d) ==
    /\ ~crashed
    /\ timers[d] > 0
    /\ timers' = [timers EXCEPT ![d] = @ - 1]
    /\ nBoot' = nBoot + 1
    /\ ev' = Event("timer", d, NoArg, {}, NoMsg)
    /\ UNCHANGED <<kucoinWs, kucoinWsUrl, ustate, subscribed, pingTimers,
                   consecFails, crashed, downVars>>
    /\ UNCHANGED logVars

\* 'open' of socket s: the subscribe command goes out on kucoinWs, then the
\* keep-alive interval is created.
UpstreamOpen(s) ==
    /\ ~crashed
    /\ ustate[s] = "connecting"
    /\ LET st == [ustate EXCEPT ![s] = "open"]
           throws == kucoinWs = Null \/ st[kucoinWs] = "connecting"
       IN  /\ ustate' = st
           /\ crashed' = throws
           /\ subscribed' = IF ~throws /\ st[kucoinWs] = "open"
                            THEN subscribed \cup {kucoinWs} ELSE subscribed
           /\ pingTimers' = IF throws THEN pingTimers
                            ELSE Min(pingTimers + 1, MaxPingTimers)
    /\ ev' = Event("upstreamOpen", s, NoArg, {}, NoMsg)
    /\ UNCHANGED <<kucoinWs, kucoinWsUrl, nBoot, timers, consecFails, downVars>>
    /\ UNCHANGED logVars

\* 'message' of socket s with frame m; with rec, the published frame and its
\* deliveries are also appended to the history variables.
OnMessage(s, m, rec) ==
    /\ ~crashed
    /\ ustate[s] = "open"
    /\ IsCandleFrame(m) => s \in subscribed
    /\ crashed' = FrameThrows(m)
    /\ ev' = IF ~FrameThrows(m) /\ IsCandleFrame(m)
             THEN Event("upstreamMessage", s, m, broadcast(clients, cstate), LiveUpdate(m))
             ELSE Event("upstreamMessage", s, m, {}, NoMsg)
    /\ IF rec /\ ~FrameThrows(m) /\ IsCandleFrame(m)
       THEN /\ Len(feed) < MaxFeed
            /\ feed' = Append(feed, m)
            /\ live' = [c \in Clients |->
                           IF c \in broadcast(clients, cstate)
                           THEN Deliver(live[c], Len(feed) + 1, LiveUpdate(m))
                           ELSE live[c]]
       ELSE UNCHANGED logVars
    /\ UNCHANGED <<upVars, downVars>>

\* A variant in which the handler waits for the history fetches in flight.
UpstreamMessageAfterFetches(s, m) ==
    /\ \A c \in Clients : pending[c] = 0
    /\ OnMessage(s, m, FALSE)

\* 'message' of socket s with frame m.
UpstreamMessage(s, m) == OnMessage(s, m, FALSE)

\* The same handler, with the history variables kept.
UpstreamMessageLogged(s, m) == OnMessage(s, m, TRUE)

\* 'error' of the open socket s; its 'close' follows later.
UpstreamError(s) ==
    /\ ~crashed
    /\ ustate[s] = "open"
    /\ LET r == OnError(kucoinWs, [ustate EXCEPT ![s] = "closing"], timers)
       IN  /\ ustate' = r.ustate
           /\ timers' = r.timers
           /\ crashed' = r.threw
    /\ ev' = Event("upstreamError", s, NoArg, {}, NoMsg)
    /\ UNCHANGED <<kucoinWs, kucoinWsUrl, subscribed, nBoot, pingTimers,
                   consecFails, downVars>>
    /\ UNCHANGED logVars

\* The handshake of socket s fails: 'error' and 'close' are emitted together.
UpstreamConnectFail(s) ==
    /\ ~crashed
    /\ ustate[s] = "connecting"
    /\ LET r == OnError(kucoinWs, [ustate EXCEPT ![s] = "closing"], timers)
           c == OnClose(r.timers)
       IN  IF r.threw
           THEN /\ crashed' = TRUE
                /\ ustate' = r.ustate
                /\ timers' = r.timers
                /\ UNCHANGED kucoinWs
           ELSE /\ crashed' = FALSE
                /\ ustate' = [r.ustate EXCEPT ![s] = "closed"]
                /\ timers' = c.timers
                /\ kucoinWs' = c.kucoinWs
    /\ ev' = Event("upstreamConnectFail", s, NoArg, {}, NoMsg)
    /\ UNCHANGED <<kucoinWsUrl, subscribed, nBoot, pingTimers, consecFails,
                   downVars>>
    /\ UNCHANGED logVars

\* 'close' of socket s, closed by the exchange or after an error.
UpstreamClose(s) ==
    /\ ~crashed
    /\ ustate[s] \in {"open", "closing"}
    /\ LET c == OnClose(timers)
       IN  /\ timers' = c.timers
           /\ kucoinWs' = c.kucoinWs
    /\ ustate' = [ustate EXCEPT ![s] = "closed"]
    /\ subscribed' = subscribed \ {s}
    /\ ev' = Event(IF ustate[s] = "closing" THEN "upstreamCloseAfterError"
                   ELSE "upstreamClose", s, NoArg, {}, NoMsg)
    /\ UNCHANGED <<kucoinWsUrl, nBoot, pingTimers, consecFails, crashed, downVars>>
    /\ UNCHANGED logVars

\* One keep-alive interval fires.
PingFire ==
    /\ ~crashed
    /\ pingTimers > 0
    /\ ev' = IF kucoinWs # Null /\ ustate[kucoinWs] = "open"
             THEN Event("ping", kucoinWs, NoArg, {}, [topic |-> "ping"])
             ELSE Event("ping", Null, NoArg, {}, NoMsg)
    /\ UNCHANGED <<upVars, downVars, crashed>>
    /\ UNCHANGED logVars

\* --------------------------------------------------------------- downstream

\* wss.on('connection')
ClientConnect(c) ==
    /\ ~crashed
    /\ cstate[c] = "none"
    /\ \A d \in Clients : d < c => cstate[d] # "none"
    /\ cstate' = [cstate EXCEPT ![c] = "open"]
    /\ clients' = clients \cup {c}
    /\ ev' = Event("clientConnect", c, NoArg, {}, NoMsg)
    /\ UNCHANGED <<pending, upVars, crashed>>
    /\ UNCHANGED logVars

\* 'message' with topic request_history: the handler runs up to its await.
ClientRequestHistory(c) ==
    /\ ~crashed
    /\ cstate[c] = "open"
    /\ pending[c] < MaxPending
    /\ pending' = [pending EXCEPT ![c] = @ + 1]
    /\ ev' = Event("requestHistory", c, NoArg, {}, NoMsg)
    /\ UNCHANGED <<clients, cstate, upVars, crashed>>
    /\ UNCHANGED logVars

\* 'message' that parses and has another topic.
ClientOtherMessage(c) ==
    /\ ~crashed
    /\ cstate[c] = "open"
    /\ ev' = Event("otherMessage", c, NoArg, {}, NoMsg)
    /\ UNCHANGED <<downVars, upVars, crashed>>
    /\ UNCHANGED logVars

\* 'message' that JSON.parse rejects (or parses to null): the async handler
\* rejects and nobody handles the rejection.
ClientBadMessage(c) ==
    /\ ~crashed
    /\ cstate[c] = "open"
    /\ crashed' \in BOOLEAN
    /\ ev' = Event("badMessage", c, NoArg, {}, NoMsg)
    /\ UNCHANGED <<downVars, upVars>>
    /\ UNCHANGED logVars

\* axios.get resolved with kucoinData for a request of c.
HistoryOk(c, kucoinData) ==
    /\ ~crashed
    /\ pending[c] > 0
    /\ pending' = [pending EXCEPT ![c] = @ - 1]
    /\ ev' = Event("historyOk", c, kucoinData, ReplyRecipients(c, clients, cstate),
                   HistoryReply(kucoinData))
    /\ UNCHANGED <<clients, cstate, upVars, crashed>>
    /\ UNCHANGED logVars

\* axios.get rejected for a request of c.
HistoryFail(c) ==
    /\ ~crashed
    /\ pending[c] > 0
    /\ pending' = [pending EXCEPT ![c] = @ - 1]
    /\ ev' = Event("historyFail", c, NoArg, ReplyRecipients(c, clients, cstate),
                   ErrorReply)
    /\ UNCHANGED <<clients, cstate, upVars, crashed>>
    /\ UNCHANGED logVars

\* The connection of c starts closing: readyState leaves OPEN before 'close'.
ClientClosing(c) ==
    /\ ~crashed
    /\ cstate[c] = "open"
    /\ cstate' = [cstate EXCEPT ![c] = "closing"]
    /\ ev' = Event("clientClosing", c, NoArg, {}, NoMsg)
    /\ UNCHANGED <<clients, pending, upVars, crashed>>
    /\ UNCHANGED logVars

\* A variant of the close handler that leaves the connection in the registry.
ClientCloseKeepsEntry(c) ==
    /\ ~crashed
    /\ cstate[c] = "closing"
    /\ cstate' = [cstate EXCEPT ![c] = "closed"]
    /\ ev' = Event("clientClose", c, NoArg, {}, NoMsg)
    /\ UNCHANGED <<clients, pending, upVars, crashed>>
    /\ UNCHANGED logVars

\* clientWs.on('close')
ClientClose(c) ==
    /\ ~crashed
    /\ cstate[c] = "closing"
    /\ cstate' = [cstate EXCEPT ![c] = "closed"]
    /\ clients' = clients \ {c}
    /\ ev' = Event("clientClose", c, NoArg, {}, NoMsg)
    /\ UNCHANGED <<pending, upVars, crashed>>
    /\ UNCHANGED logVars

\* 'error' of a downstream socket: no listener is registered for it.
ClientError(c) ==
    /\ ~crashed
    /\ cstate[c] = "open"
    /\ crashed' = TRUE
    /\ ev' = Event("clientError", c, NoArg, {}, NoMsg)
    /\ UNCHANGED <<downVars, upVars>>
    /\ UNCHANGED logVars

\* ------------------------------------------------------------ specification

Next ==
    \/ BootstrapOk
    \/ BootstrapFail
    \/ \E d \in Delays : TimerFire(d)
    \/ \E s \in SockIds : UpstreamOpen(s)
    \/ \E s \in SockIds, m \in FeedFrames : UpstreamMessage(s, m)
    \/ \E s \in SockIds : UpstreamError(s)
    \/ \E s \in SockIds : UpstreamConnectFail(s)
    \/ \E s \in SockIds : UpstreamClose(s)
    \/ PingFire
    \/ \E c \in Clients : ClientConnect(c)
    \/ \E c \in Clients : ClientRequestHistory(c)
    \/ \E c \in Clients : ClientOtherMessage(c)
    \/ \E c \in Clients : ClientBadMessage(c)
    \/ \E c \in Clients, p \in SamplePayloads : HistoryOk(c, p)
    \/ \E c \in Clients : HistoryFail(c)
    \/ \E c \in Clients : ClientClosing(c)
    \/ \E c \in Clients : ClientClose(c)
    \/ \E c \in Clients : ClientError(c)

Spec == Init /\ [][Next]_vars

\* The relay under the scheduling the runtime guarantees: a pending timer fires.
FairSpec == Spec /\ WF_vars(\E d \in Delays : TimerFire(d))

\* The history bridge alone, over every REST payload enumerated.
NextHistory ==
    \/ \E c \in Clients : ClientConnect(c)
    \/ \E c \in Clients : ClientRequestHistory(c)
    \/ \E c \in Clients, p \in AllPayloads : HistoryOk(c, p)
    \/ \E c \in Clients : HistoryFail(c)
    \/ \E c \in Clients : ClientClosing(c)
    \/ \E c \in Clients : ClientClose(c)

HistorySpec == Init /\ [][NextHistory]_vars

\* The live path alone (upstream connection cycle, feed frames, downstream
\* connections coming and going), with every delivery recorded.
NextFeed ==
    \/ BootstrapOk
    \/ \E d \in Delays : TimerFire(d)
    \/ \E s \in SockIds : UpstreamOpen(s)
    \/ \E s \in SockIds, m \in PublishedFrames : UpstreamMessageLogged(s, m)
    \/ \E s \in SockIds : UpstreamError(s)
    \/ \E s \in SockIds : UpstreamClose(s)
    \/ \E c \in Clients : ClientConnect(c)
    \/ \E c \in Clients : ClientClosing(c)
    \/ \E c \in Clients : ClientClose(c)

FeedSpec == Init /\ [][NextFeed]_vars

\* ------------------------------------------------------------------- claims

\* Upstream sockets that are connecting or open.
LiveSockets == {s \in SockIds : ustate[s] \in {"connecting", "open"}}
PendingTimers == timers[ReconnectDelay] + timers[BootstrapRetryDelay]
\* Connection attempts that are running or scheduled.
ActiveAttempts == Cardinality(LiveSockets) + nBoot + PendingTimers

\* C1: in every reachable state the upstream sockets that are connecting or
\* open, the bootstrap requests in flight and the pending reconnect timers
\* number at most one in total.
C1_AtMostOneAttempt == ActiveAttempts <= 1

\* C1 witness: a second upstream connection has opened after a reconnect, and
\* it is the only attempt.
C1_Witness ==
    /\ ev.type = "upstreamOpen"
    /\ pingTimers >= 2
    /\ ActiveAttempts = 1
    /\ ~crashed

\* The downstream sockets that are registered and open.
OpenSubscribers == {c \in clients : cstate[c] = "open"}
\* The last handler was the upstream 'message' handler and it published a
\* live update.
Published == ev.type = "upstreamMessage" /\ ev.msg.topic = CandleTopic
\* The last handler was the 'close' handler of an upstream socket that had
\* been open.
UpstreamClosed == ev.type \in {"upstreamClose", "upstreamCloseAfterError"}

\* C2: whenever an upstream connection that was open closes, a new connection
\* attempt (a bootstrap request) eventually starts, given that pending timers
\* fire; and every live update published, before or after a reconnect, is
\* transmitted to every subscriber that is registered and open.
C2_ReconnectsAndResumes ==
    /\ (UpstreamClosed /\ ~crashed) ~> (nBoot > 0)
    /\ [](Published => OpenSubscribers \subseteq ev.to)

\* C2, apart from the process terminating: a close is followed by a new
\* attempt in every behaviour in which no handler throws.
C2_ReconnectsUnlessTerminated ==
    (UpstreamClosed /\ ~crashed) ~> (nBoot > 0 \/ crashed)

\* C3: a published live update is transmitted to exactly the registered
\* subscribers whose connection is open at that moment; a registered subscriber
\* that is not open is skipped and the publish does not fail.
C3_BroadcastToOpen == Published => (ev.to = OpenSubscribers /\ ~crashed)

\* C3 witness: three subscribers are registered, the second one's connection
\* is no longer open, and the update went to the first and the third.
C3_Witness ==
    /\ Published
    /\ clients = {1, 2, 3}
    /\ cstate[2] = "closing"
    /\ ev.to = {1, 3}

\* No upstream socket object is alive and kucoinWs refers to none.
NoUpstreamSocket == kucoinWs = Null /\ \A s \in SockIds : ustate[s] = "closed"

\* C5: a failure of the bootstrap request leaves no upstream socket and exactly
\* one retry pending, under the 10s delay, whatever the number of failures
\* before it.
C5_BootstrapFailRetries ==
    ev.type = "bootstrapFail" =>
        /\ NoUpstreamSocket
        /\ timers[BootstrapRetryDelay] = 1
        /\ timers[ReconnectDelay] = 0
        /\ nBoot = 0
        /\ ~crashed

\* C5 witness: the bootstrap has failed MaxConsecFails times (or more) in a
\* row and its retry is pending.
C5_Witness ==
    /\ ev.type = "bootstrapFail"
    /\ consecFails = MaxConsecFails
    /\ timers[BootstrapRetryDelay] = 1

\* C6: the 'close' of an upstream socket, alone or following its 'error',
\* leaves no current upstream socket and exactly one reconnect pending, under
\* the 5s delay; the 'error' of an open socket schedules nothing itself and
\* leaves the socket closing, so that error and close together schedule one.
C6_TerminationReconnectsOnce ==
    /\ ev.type \in {"upstreamClose", "upstreamCloseAfterError", "upstreamConnectFail"} =>
           /\ NoUpstreamSocket
           /\ timers[ReconnectDelay] = 1
           /\ timers[BootstrapRetryDelay] = 0
           /\ nBoot = 0
           /\ ~crashed
    /\ ev.type = "upstreamError" =>
           /\ ustate[ev.id] = "closing"
           /\ kucoinWs = ev.id
           /\ PendingTimers = 0
           /\ nBoot = 0
           /\ ~crashed

\* C6 witness: an upstream socket raised 'error' and then 'close', and one
\* reconnect is pending.
C6_Witness ==
    /\ ev.type = "upstreamCloseAfterError"
    /\ timers[ReconnectDelay] = 1
    /\ NoUpstreamSocket

\* C7: in every reachable state the process is running and an upstream socket
\* is alive, a bootstrap request is in flight or a retry timer is pending.
C7_NeverDead ==
    /\ ~crashed
    /\ \/ \E s \in SockIds : ustate[s] \in {"connecting", "open", "closing"}
       \/ nBoot > 0
       \/ PendingTimers > 0

\* C7, the part that holds of the code: while the process runs, exactly one
\* attempt or socket is alive.
C7_AliveWhileRunning ==
    ~crashed =>
        Cardinality({s \in SockIds : ustate[s] # "closed"}) + nBoot + PendingTimers = 1

\* The last handler replied to a history request of socket ev.id.
Replied == ev.type \in {"historyOk", "historyFail"}
\* The reply went to the requester if its connection is open, and to nobody else.
ToRequesterOnly ==
    /\ ev.to \subseteq {ev.id}
    /\ cstate[ev.id] = "open" => ev.to = {ev.id}

\* C8: when the REST call of a history request fails, an error-topic message
\* goes to the requesting connection and to no other, the process keeps
\* running, and the step changes neither the registry, nor any downstream
\* connection, nor the upstream state.
C8_FetchErrorToRequesterOnly ==
    /\ [](ev.type = "historyFail" =>
              /\ ev.msg.topic = "error"
              /\ ToRequesterOnly
              /\ ~crashed)
    /\ [][(ev'.type = "historyFail" /\ pending' # pending) =>
              UNCHANGED <<clients, cstate, upVars, crashed>>]_vars

\* C8 witness: a fetch failed for a requester that is open, while another
\* subscriber is registered and open and the upstream socket is open.
C8_Witness ==
    /\ ev.type = "historyFail"
    /\ ev.to = {ev.id}
    /\ \E d \in OpenSubscribers : d # ev.id
    /\ kucoinWs # Null
    /\ ustate[kucoinWs] = "open"

\* C9: the fetches in flight of a connection change only by a history request
\* of that connection (one more, nothing sent) or by one reply, history_data or
\* error, for that connection (one fewer); every reply is such a step and goes
\* to the requester only.
C9_OneReplyToRequester ==
    /\ [](Replied => (ev.msg.topic \in {"history_data", "error"} /\ ToRequesterOnly))
    /\ [][\A c \in Clients :
            /\ pending'[c] # pending[c] =>
                  \/ /\ pending'[c] = pending[c] + 1
                     /\ ev' = Event("requestHistory", c, NoArg, {}, NoMsg)
                  \/ /\ pending'[c] = pending[c] - 1
                     /\ ev'.type \in {"historyOk", "historyFail"}
                     /\ ev'.id = c
            /\ (ev'.type \in {"historyOk", "historyFail"} /\ ev'.id = c) =>
                  /\ pending'[c] = pending[c] - 1
                  /\ \A d \in Clients \ {c} : pending'[d] = pending[d]
         ]_vars

\* C9 witness: a connection with two requests in flight got the reply to one
\* of them while another connection, registered and open, waits for its own.
C9_Witness ==
    /\ ev.type = "historyOk"
    /\ ev.to = {ev.id}
    /\ pending[ev.id] = 1
    /\ \E d \in OpenSubscribers : d # ev.id /\ pending[d] > 0

\* The REST call of the last handler succeeded with this payload.
Fetched == ev.type = "historyOk"

\* C10: a successful REST call whose payload is no array, or an empty array,
\* is answered with history_data and an empty list, not with an error.
C10_EmptyPayloadEmptyHistory ==
    (Fetched /\ (~ev.arg.isArray \/ Len(ev.arg.items) = 0)) =>
        /\ ev.msg.topic = "history_data"
        /\ ev.msg.data = <<>>
        /\ ToRequesterOnly

\* C10 witness: a payload that is no array was answered to an open requester.
C10_Witness ==
    /\ Fetched
    /\ ~ev.arg.isArray
    /\ ev.to = {ev.id}
    /\ ev.msg.topic = "history_data"

\* Order of two normalized times (whole seconds, then thousandths).
TimeBefore(a, b) == a.int < b.int \/ (a.int = b.int /\ a.frac < b.frac)
StrictlyAscending(cs) ==
    \A i, j \in 1..Len(cs) : i < j => TimeBefore(cs[i].time, cs[j].time)
\* The raw records are oldest-first, respectively newest-first.
RawAscending(items) == \A i, j \in 1..Len(items) : i < j => items[i][1] < items[j][1]
RawDescending(items) == \A i, j \in 1..Len(items) : i < j => items[i][1] > items[j][1]

\* C4: a non-empty raw response with distinct timestamps, oldest-first or
\* newest-first, is answered with a batch strictly ascending by time, which is
\* the mapped sequence reversed if and only if the raw order was newest-first.
C4_HistoryAscending ==
    (/\ Fetched
     /\ ev.arg.isArray
     /\ Len(ev.arg.items) > 0
     /\ RawAscending(ev.arg.items) \/ RawDescending(ev.arg.items)) =>
        /\ ev.msg.topic = "history_data"
        /\ StrictlyAscending(ev.msg.data)
        /\ (ev.msg.data = Reverse(formattedCandles(ev.arg.items)))
               <=> RawDescending(ev.arg.items)

\* C4, the part that holds of the code: the batch is always the mapped
\* sequence reversed, so a newest-first response is answered oldest-first.
C4_NewestFirstAscends ==
    (Fetched /\ ev.arg.isArray /\ Len(ev.arg.items) > 0) =>
        /\ ev.msg.data = Reverse(formattedCandles(ev.arg.items))
        /\ RawDescending(ev.arg.items) => StrictlyAscending(ev.msg.data)

\* A candle.stick frame whose candles array stops before the close (or has no
\* time).
LacksTimeOrClose(m) ==
    /\ IsCandleFrame(m)
    /\ m.hasCandles
    /\ Field(m.candles, 0) = Undefined \/ Field(m.candles, 2) = Undefined
\* The chart's test of a live update, a value that is NaN reaching it as the
\* JSON null: !candleData.time || !candleData.close.
ChartRejects(candle) ==
    \/ candle.time.int = NaN
    \/ (candle.time.int = 0 /\ candle.time.frac = 0)
    \/ candle.close = NaN
    \/ candle.close = 0

\* C11: a candle.stick frame whose data lacks the close (or the time) is
\* dropped by the relay: its handler sends nothing to any subscriber and does
\* not terminate the process.
C11_IncompleteFrameDropped ==
    (ev.type = "upstreamMessage" /\ LacksTimeOrClose(ev.arg)) =>
        /\ ev.to = {}
        /\ ~crashed

\* C11, the part that holds of the code: such a frame is pushed to every open
\* subscriber with close NaN, and it is the chart that rejects it.
C11_IncompleteFramePushed ==
    (ev.type = "upstreamMessage" /\ LacksTimeOrClose(ev.arg)) =>
        /\ ev.to = OpenSubscribers
        /\ ev.msg = LiveUpdate(ev.arg)
        /\ ChartRejects(ev.msg.data)
        /\ ~crashed

\* Downstream connections that have connected and whose 'close' has not run.
Connected == {c \in Clients : cstate[c] \in {"open", "closing"}}

\* C12: in every reachable state the registry holds exactly the downstream
\* connections that have connected and not yet been disconnected; a connection
\* leaves the registry only in its own 'close' handler, and one that has been
\* closed is never in the registry again.
C12_RegistryExact ==
    /\ [](clients = Connected)
    /\ [][\A c \in Clients :
            /\ (c \in clients /\ c \notin clients') =>
                   (ev'.type = "clientClose" /\ ev'.id = c /\ cstate'[c] = "closed")
            /\ (c \notin clients /\ c \in clients') =>
                   (ev'.type = "clientConnect" /\ ev'.id = c /\ cstate[c] = "none")
            /\ cstate[c] = "closed" => (cstate'[c] = "closed" /\ c \notin clients')]_vars

\* One connection has been deregistered by its 'close' while another one stays
\* registered.
C12_Witness ==
    /\ ev.type = "clientClose"
    /\ cstate[ev.id] = "closed"
    /\ ev.id \notin clients
    /\ clients # {}

\* C13: what a subscriber has been sent is a subsequence of the feed's
\* published frames: every entry is the update built from the frame of its
\* position, positions strictly increase (same order, nothing twice), and this
\* holds across publishes, registrations, deregistrations and reconnects.
C13_SubsequenceInOrder ==
    \A c \in Clients :
        /\ \A i \in 1..Len(live[c]) :
               /\ live[c][i].n \in 1..Len(feed)
               /\ live[c][i].msg = LiveUpdate(feed[live[c][i].n])
        /\ \A i, j \in 1..Len(live[c]) : i < j => live[c][i].n < live[c][j].n

\* After a reconnect of the upstream socket, one subscriber has been sent both
\* published updates and another, registered later, only the second.
C13_Witness ==
    /\ pingTimers = 2
    /\ Len(feed) = 2
    /\ \E c, d \in Clients :
           /\ Len(live[c]) = 2
           /\ Len(live[d]) = 1
           /\ live[d][1].n = 2

\* History fetches awaiting axios.get.
FetchesPending == {c \in Clients : pending[c] > 0}

\* C14: a history fetch in flight never blocks the publish path: whatever
\* fetches are pending, the 'message' handler of the open, subscribed upstream
\* socket can run, and the update it publishes goes to every registered open
\* subscriber, the requesters included, while their fetches are still pending.
C14_PublishNotBlocked ==
    /\ \A s \in SockIds :
           (~crashed /\ ustate[s] = "open" /\ s \in subscribed) =>
               ENABLED UpstreamMessage(s, GoodFrame)
    /\ (Published /\ FetchesPending # {}) =>
           \A c \in clients : cstate[c] = "open" => c \in ev.to

\* A live update was sent to two subscribers whose history fetches, two of
\* them for one subscriber, are still pending.
C14_Witness ==
    /\ Published
    /\ \E c, d \in ev.to : c # d /\ pending[c] > 0 /\ pending[d] > 1

\* The candle {time: t/1000, open: o, close: c, high: h, low: l} of a complete
\* raw record r = [t, o, c, h, l].
CandleOf(r) ==
    [time  |-> [int |-> r[1] \div 1000, frac |-> r[1] % 1000],
     open  |-> r[2],
     close |-> r[3],
     high  |-> r[4],
     low   |-> r[5]]
WholeSeconds(n) == [int |-> n, frac |-> 0]
ExampleRaw == <<<<2000, 10, 12, 13, 9>>, <<1000, 8, 9, 9, 7>>>>
ExampleCandles ==
    <<[time |-> WholeSeconds(1), open |-> 8, close |-> 9, high |-> 9, low |-> 7],
      [time |-> WholeSeconds(2), open |-> 10, close |-> 12, high |-> 13, low |-> 9]>>

\* C15: a non-empty raw response is answered with as many candles as it has
\* records, each record [t, o, c, h, l] mapped to {time: t/1000, open: o,
\* close: c, high: h, low: l}; the response [[2000,10,12,13,9],[1000,8,9,9,7]]
\* yields exactly the candles of time 1 and of time 2, in that order.
C15_RecordsMapped ==
    (Fetched /\ ev.arg.isArray /\ Len(ev.arg.items) > 0) =>
        /\ ev.msg.topic = "history_data"
        /\ Len(ev.msg.data) = Len(ev.arg.items)
        /\ \A i \in 1..Len(ev.arg.items) :
               ev.msg.data[Len(ev.arg.items) + 1 - i] = CandleOf(ev.arg.items[i])
        /\ ev.arg.items = ExampleRaw => ev.msg.data = ExampleCandles

\* The example response was fetched and answered, to the open requester, with
\* the two example candles.
C15_Witness ==
    /\ Fetched
    /\ ev.arg = Array(ExampleRaw)
    /\ ev.msg.data = ExampleCandles
    /\ ev.to = {ev.id}

\* The normalized time is the whole number of seconds raw / 1000 truncated.
TruncatedSeconds(time, raw) == time.int = raw \div MsPerSecond /\ time.frac = 0

\* C16: for every raw millisecond timestamp, of a historical record or of a
\* live frame, the normalized time is an integer number of seconds, raw / 1000
\* with the sub-second part removed.
C16_TimeTruncated ==
    /\ (Fetched /\ ev.arg.isArray /\ Len(ev.arg.items) > 0) =>
           \A i \in 1..Len(ev.arg.items) :
               TruncatedSeconds(ev.msg.data[Len(ev.arg.items) + 1 - i].time,
                                ev.arg.items[i][1])
    /\ (Published /\ Len(ev.arg.candles) > 0) =>
           TruncatedSeconds(ev.msg.data.time, ev.arg.candles[1])

\* C16, the part that holds of the code: the normalized time is the exact
\* quotient raw / 1000, fraction included.
C16_TimeExactQuotient ==
    /\ (Fetched /\ ev.arg.isArray /\ Len(ev.arg.items) > 0) =>
           \A i \in 1..Len(ev.arg.items) :
               LET t == ev.msg.data[Len(ev.arg.items) + 1 - i].time
               IN  t.int * MsPerSecond + t.frac = ev.arg.items[i][1]
    /\ (Published /\ Len(ev.arg.candles) > 0) =>
           ev.msg.data.time.int * MsPerSecond + ev.msg.data.time.frac
               = ev.arg.candles[1]

\* The last handler ran for a downstream message that is no history request.
NotAHistoryRequest == ev.type \in {"otherMessage", "badMessage"}

\* C17: a downstream message that is not a history request, of any other topic
\* or shape, is ignored: its handler sends nothing and the relay keeps running
\* (that it leaves the registry, the connection and the upstream state as they
\* were is C17_OtherTopicIgnored below).
C17_OtherMessageIgnored ==
    NotAHistoryRequest => (ev.to = {} /\ ev.msg = NoMsg /\ ~crashed)

\* C17, the part that holds of the code: a message that parses to an object
\* with another topic is ignored and the relay keeps running, and no message
\* that is not a history request changes the registry, a connection or the
\* upstream state.
C17_OtherTopicIgnored ==
    /\ [](ev.type = "otherMessage" => (ev.to = {} /\ ev.msg = NoMsg /\ ~crashed))
    /\ [][NotAHistoryRequest' => UNCHANGED <<downVars, upVars>>]_vars

\* Downstream connections that are no longer open.
NotOpen == {c \in Clients : cstate[c] \in {"closing", "closed"}}

PingSent == ev.type = "ping" /\ ev.msg # NoMsg

\* C19: at any time, after any number of reconnects, at most one keep-alive
\* timer is active (so the open upstream socket gets at most one ping per
\* period), and a ping is only ever sent to a socket that is open.
C19_OneKeepAlive ==
    /\ pingTimers <= 1
    /\ PingSent => (ev.id = kucoinWs /\ ustate[ev.id] = "open")

\* C19, the part that holds of the code: a ping is only ever sent to the
\* current socket while it is open, and a tick without one sends nothing.
C19_PingOnlyToOpen ==
    /\ PingSent => (ev.id = kucoinWs /\ ustate[ev.id] = "open")
    /\ (ev.type = "ping" /\ ~PingSent) =>
           (kucoinWs = Null \/ ustate[kucoinWs] # "open")

\* The handlers registered on the upstream socket (ev.id is the socket that
\* raised the event).
UpstreamHandlers ==
    {"upstreamOpen", "upstreamMessage", "upstreamError", "upstreamConnectFail",
     "upstreamClose", "upstreamCloseAfterError"}
ErrorHandlers == {"upstreamError", "upstreamConnectFail"}

\* C20: whenever a handler of an upstream socket runs, kucoinWs refers to the
\* socket that raised the event (so it is not null), and the error handler
\* closes that socket and no other, without throwing, whatever the order of
\* errors, closes, reconnect timers and bootstrap requests before it.
C20_HandlerSeesOwnSocket ==
    [][/\ ev'.type \in UpstreamHandlers => kucoinWs = ev'.id
       /\ ev'.type \in ErrorHandlers =>
              /\ ~crashed'
              /\ ustate'[ev'.id] \in {"closing", "closed"}
              /\ \A t \in SockIds \ {ev'.id} : ustate'[t] = ustate[t]]_vars

\* After a reconnect, the error handler ran for the second connection's socket
\* and closed that socket, which kucoinWs still refers to.
C20_Witness ==
    /\ ev.type = "upstreamError"
    /\ pingTimers = 2
    /\ kucoinWs = ev.id
    /\ ustate[ev.id] = "closing"
    /\ ~crashed

====
